---- MODULE Spec2Model ----
(***************************************************************************)
(* Company research orchestration pipeline of ayushhunt/jobhelp:           *)
(*   backend/app/services/company_research/company_research_orchestrator.py*)
(*   backend/app/services/company_research/research_sources/               *)
(*       base_research_source.py and the four registered providers         *)
(*   backend/app/models/schemas/company_research.py                        *)
(*                                                                         *)
(* The orchestrator runs on one asyncio event loop.  Every action below    *)
(* is one run of a coroutine between two suspension points, so the states  *)
(* of the model are exactly the states other coroutines (progress polls,   *)
(* cancel calls, other requests) can observe.                              *)
(***************************************************************************)
EXTENDS Integers, Sequences, FiniteSets, TLC

(* ------------------------------ bounds --------------------------------- *)


\* number of probe failures the environment injects in one behaviour
\* (the ai_analysis probe of the fan-out fails by itself and is not counted)
MaxProbeFailures == 3

\* the research_company calls of one behaviour, named by their request ids
Requests == {"request-1"}

\* the request ids of two research_company calls that run concurrently
AllRequests == {"request-1", "request-2"}

(* ------------------------- enums and constants ------------------------- *)

WHOIS == "whois"
WEB_SEARCH == "web_search"
KNOWLEDGE_GRAPH == "knowledge_graph"
AI_ANALYSIS == "ai_analysis"

PENDING == "pending"
IN_PROGRESS == "in_progress"
COMPLETED == "completed"
FAILED == "failed"
PARTIAL == "partial"

ResearchStatus == {PENDING, IN_PROGRESS, COMPLETED, FAILED, PARTIAL}

\* the keys of CompanyResearchOrchestrator.research_sources
Sources == {WHOIS, WEB_SEARCH, KNOWLEDGE_GRAPH, AI_ANALYSIS}

\* BaseResearchSource.max_retries and retry_delay (seconds)
max_retries == 3
retry_delay == 1

\* request.research_depth is a free string; "express" stands for any string
\* that is not a key of pipeline_config
Depths == {"basic", "standard", "comprehensive", "express"}

STANDARD_PIPELINE == <<WHOIS, WEB_SEARCH, KNOWLEDGE_GRAPH>>

pipeline_config ==
    [d \in {"basic", "standard", "comprehensive"} |->
        CASE d = "basic" -> <<WEB_SEARCH>>
          [] d = "standard" -> STANDARD_PIPELINE
          [] d = "comprehensive" -> <<WHOIS, WEB_SEARCH, KNOWLEDGE_GRAPH, AI_ANALYSIS>>]

\* self.pipeline_config.get(request.research_depth, self.pipeline_config["standard"])
SelectedSources(d) ==
    IF d \in DOMAIN pipeline_config THEN pipeline_config[d] ELSE pipeline_config["standard"]

Range(seq) == {seq[k] : k \in 1..Len(seq)}

\* str(e) of the exception research raises in its first, second and third call.
\* execute_research copies the message and never inspects it, so one distinct
\* message per call is the general case.
ProbeErrors == <<"error of call 1", "error of call 2", "error of call 3">>

\* what research returns: the registered providers always return a non-empty
\* map (web_search_service.py:69-74, whois_service.py:221-227,
\* knowledge_graph_service.py:356-373)
Payloads == {"payload"}
NO_RESEARCH_DATA == "No research data provided for AI analysis"
NOT_HEALTHY == "Service is not healthy"

(* ------------------------------- state --------------------------------- *)

VARIABLES
    settings,        \* which provider credentials are configured (not None)
    is_available,    \* BaseResearchSource.is_available, per provider
    error_count,     \* BaseResearchSource.error_count, per provider
    last_used,       \* BaseResearchSource.last_used is not None, per provider
    sessions,        \* active_research_sessions: request id -> ResearchProgress
    pc,              \* where each research_company call stands
    depth,           \* request.research_depth of each call
    tasks,           \* the fan-out coroutines of each call, per source
    done_queue,      \* completed fan-out tasks not yet yielded by as_completed
    task_results,    \* the list _execute_research_pipeline is building
    built,           \* keyword arguments of the CompanyResearchResponse(...) call
                     \*   of _build_research_response, with the keys of the
                     \*   research_data it was given
    error_built,     \* the same for _build_error_response
    outcome,         \* how research_company ended: returned a report or raised
    ai_output,       \* what _perform_ai_analysis gave back
    cancelled,       \* cancel_research returned True for this id
    failures,        \* probe failures injected so far
    last_call,       \* the registry call recorded last and what it returned
    aggregated,      \* a result list given to _aggregate_research_data and
                     \*   the map it returned
    portfolio        \* a PortfolioResearchService and its execute_research call

vars == <<settings, is_available, error_count, last_used, sessions, pc, depth,
          tasks, done_queue, task_results, built, error_built, outcome,
          ai_output, cancelled, failures, last_call, aggregated, portfolio>>

providerVars == <<settings, is_available>>

\* the last call of _aggregate_research_data on a result list of its own, and
\* the PortfolioResearchService a script builds for itself
auxVars == <<aggregated, portfolio>>

\* every variable of the orchestrator and of its providers
orchestratorVars ==
    <<settings, is_available, error_count, last_used, sessions, pc, depth,
      tasks, done_queue, task_results, built, error_built, outcome,
      ai_output, cancelled, failures, last_call>>

(* --------------------------- provider contract ------------------------- *)

\* WHOISService / WebSearchService / KnowledgeGraphService / AIAnalysisService
is_healthy(s) ==
    CASE s = WHOIS -> is_available[s]
      [] s = WEB_SEARCH ->
            is_available[s] /\ (settings.parallel_api_key
                                \/ (settings.google_api_key /\ settings.search_engine_id))
      [] s = KNOWLEDGE_GRAPH -> is_available[s] /\ settings.kg_api_key
      [] s = AI_ANALYSIS -> is_available[s] /\ settings.llm_provider

\* costs in cents: 0.05 -> 5, 0.01 -> 1, 0.02 -> 2
get_cost_estimate(s) ==
    CASE s = WHOIS -> 0
      [] s = WEB_SEARCH ->
            IF settings.parallel_api_key THEN 5
            ELSE IF settings.google_api_key THEN 1 ELSE 0
      [] s = KNOWLEDGE_GRAPH -> 0
      [] s = AI_ANALYSIS -> 2

NoResult ==
    [source |-> "none", status |-> "none", data |-> "none",
     error_message |-> "none", cost_estimate |-> 0]

ResearchTaskResult(s, st, data, msg, cost) ==
    [source |-> s, status |-> st, data |-> data,
     error_message |-> msg, cost_estimate |-> cost]

\* an execute_research coroutine of the fan-out; errors_before and used_before
\* are the provider's error_count and last_used when the call began, order is
\* its place in the order of completion (0: not finished)
NoTask ==
    [st |-> "none", attempt |-> 0, calls |-> 0, sleeps |-> <<>>,
     errs |-> <<>>, result |-> NoResult,
     errors_before |-> 0, used_before |-> FALSE, order |-> 0]

Pow2(n) == IF n = 0 THEN 1 ELSE IF n = 1 THEN 2 ELSE 4

\* a backoff that does not grow
BackoffDelay_Constant(attempt) == retry_delay

\* await asyncio.sleep(self.retry_delay * (2 ** attempt))
BackoffDelay(attempt) == retry_delay * Pow2(attempt)

\* the message of the first failure instead of the last
ExhaustedMessage_First(errs) == errs[1]

\* error_message=str(e) of the exception caught in the last iteration
ExhaustedMessage(errs) == errs[Len(errs)]

\* the health gate left out
HealthGate_Skipped(s) == TRUE

\* if not self.is_healthy(): return ResearchTaskResult(FAILED, ...)
HealthGate(s) == is_healthy(s)

\* if attempt < self.max_retries - 1: sleep and retry, else give up
RetryAgain(attempt) == attempt < max_retries - 1

(* ------------------------------ reporting ------------------------------ *)

\* [result.source for result in task_results if result.status == st]
SourcesWithStatus(tr, st) ==
    LET sel == SelectSeq(tr, LAMBDA x : x.status = st)
    IN [k \in 1..Len(sel) |-> sel[k].source]

RECURSIVE CostOfCompletedOnly(_)
\* a total that leaves out the Failed results
CostOfCompletedOnly(tr) ==
    IF tr = <<>> THEN 0
    ELSE (IF Head(tr).status = "completed" THEN Head(tr).cost_estimate ELSE 0)
         + CostOfCompletedOnly(Tail(tr))

RECURSIVE _calculate_total_cost(_)
\* "if result.cost_estimate:" skips None and 0.0
_calculate_total_cost(tr) ==
    IF tr = <<>> THEN 0
    ELSE LET result == Head(tr)
         IN (IF result.cost_estimate # 0 THEN result.cost_estimate ELSE 0)
            + _calculate_total_cost(Tail(tr))

\* sources_used without its status filter
SourcesUsed_Unfiltered(tr) == [k \in 1..Len(tr) |-> tr[k].source]

\* sources_used=[... if result.status == ResearchStatus.COMPLETED]
SourcesUsed(tr) == SourcesWithStatus(tr, COMPLETED)

\* failed_sources=[... if result.status == ResearchStatus.FAILED]
FailedSources(tr) == SourcesWithStatus(tr, FAILED)

\* research_status=ResearchStatus.COMPLETED, whatever the task results are
BuiltStatus(tr) == COMPLETED

\* an aggregation that stops at the first Failed result
AggregateUntilFailure(tr) ==
    {tr[k].source : k \in {j \in 1..Len(tr) :
                              /\ tr[j].status = COMPLETED /\ tr[j].data = "payload"
                              /\ \A i \in 1..j : tr[i].status # FAILED}}

\* source names with a Completed result and a truthy payload
_aggregate_research_data(tr) ==
    {tr[k].source : k \in {j \in 1..Len(tr) :
                              tr[j].status = COMPLETED /\ tr[j].data = "payload"}}

\* the keys AIAnalysisService.research writes into the result it returns
AIResultKeys ==
    {"executive_summary", "company_authenticity", "company_growth",
     "employee_insights", "risk_assessment", "recommendations", "key_insights",
     "error"}

\* research_data.update(ai_analysis): the keys of the AI result (among
\* AIResultKeys) go to the top level of the map; update({}) adds nothing
MergeAI(research_data, ai) ==
    IF ai = "analysis" THEN research_data \cup AIResultKeys ELSE research_data

\* the strings _build_research_response falls back to
DEFAULT_NARRATIVE == "default strings"
AI_NARRATIVE == "values of ai_analysis"
ERROR_NARRATIVE == "Research failed"

\* ai_results = research_data.get("ai_analysis", {}), then
\* ai_results.get(field, default) for each narrative field
Narrative(research_data) ==
    IF AI_ANALYSIS \in research_data THEN AI_NARRATIVE ELSE DEFAULT_NARRATIVE

NoResponse ==
    [kind |-> "none", kwargs |-> {}, research_status |-> "none", total_cost |-> 0,
     sources_used |-> <<>>, failed_sources |-> <<>>, task_results |-> <<>>,
     research_data |-> {}, narrative |-> "none"]

\* the keyword names the two builders pass to CompanyResearchResponse(...)
ResearchResponseKwargs ==
    {"company_name", "company_domain", "whois_data", "web_search_results",
     "knowledge_graph_data", "company_authenticity", "company_growth",
     "employee_insights", "executive_summary", "key_insights", "risk_assessment",
     "recommendations", "research_depth", "research_status",
     "total_processing_time", "total_cost", "sources_used", "failed_sources",
     "task_results"}

ErrorResponseKwargs ==
    {"company_name", "company_domain", "executive_summary", "key_insights",
     "risk_assessment", "recommendations", "research_depth", "research_status",
     "total_processing_time", "total_cost", "sources_used", "failed_sources",
     "task_results"}

\* the fields of CompanyResearchResponse declared without a default
RequiredResponseFields ==
    {"request_id", "company_name", "executive_summary", "key_insights",
     "risk_assessment", "recommendations", "research_depth", "research_status",
     "total_processing_time", "sources_used", "failed_sources", "task_results"}

\* pydantic accepts the constructor call iff every required field is given
CompanyResearchResponse(kwargs) == RequiredResponseFields \subseteq kwargs

_build_research_response(research_data, tr) ==
    [kind |-> "research", kwargs |-> ResearchResponseKwargs,
     research_status |-> BuiltStatus(tr),
     total_cost |-> _calculate_total_cost(tr),
     sources_used |-> SourcesUsed(tr),
     failed_sources |-> FailedSources(tr),
     task_results |-> tr,
     research_data |-> research_data,
     narrative |-> Narrative(research_data)]

_build_error_response ==
    [kind |-> "error", kwargs |-> ErrorResponseKwargs,
     research_status |-> FAILED, total_cost |-> 0,
     sources_used |-> <<>>, failed_sources |-> <<>>, task_results |-> <<>>,
     research_data |-> {}, narrative |-> ERROR_NARRATIVE]

\* the share of tasks still running instead of the share completed
Percent_Remaining(done, total) == ((total - done) * 100) \div total

\* ((i + 1) / total_sources) * 100, kept as whole percent (exact at 0 and 100,
\* and order preserving in between)
Percent(done, total) == (done * 100) \div total

ResearchProgress ==
    [overall_progress |-> 0, status |-> IN_PROGRESS,
     completed_tasks |-> <<>>, failed_tasks |-> <<>>]

\* self.active_research_sessions.get(request_id)
get_research_progress(id) ==
    IF id \in DOMAIN sessions THEN sessions[id] ELSE [status |-> "none"]

\* _aggregate_research_data was not called on a list of its own
NoAggregation == [called |-> FALSE, task_results |-> <<>>, research_data |-> {}]

\* PortfolioResearchService(): BaseResearchSource.__init__, no call made
NewPortfolio ==
    [is_available |-> TRUE, error_count |-> 0, last_used |-> FALSE,
     st |-> "idle", attempt |-> 0, calls |-> 0,
     status |-> "none", error_message |-> "none"]

NoCall == [op |-> "none", id |-> "none", at |-> "none", value |-> "none"]

\* get_cost_estimate(research_depth) of the orchestrator, lines 304-312:
\* sources = self.pipeline_config.get(research_depth, []), priced one by one
CostEstimateSources(d) ==
    IF d \in DOMAIN pipeline_config THEN pipeline_config[d] ELSE <<>>

(* -------------------------------- Init --------------------------------- *)

\* credentials read from settings at construction; one representative of each
\* (health, cost) combination of WebSearchService
Deployments ==
    {cfg \in [parallel_api_key : BOOLEAN, google_api_key : BOOLEAN,
              search_engine_id : BOOLEAN, kg_api_key : BOOLEAN,
              llm_provider : BOOLEAN] :
        /\ cfg.parallel_api_key => ~cfg.google_api_key
        /\ cfg.search_engine_id => cfg.google_api_key}

Init ==
    /\ settings \in Deployments
    \* is_available is True after construction; update_availability(False)
    \* is the only way to take down WHOIS, whose health is is_available alone
    /\ is_available \in {f \in [Sources -> BOOLEAN] :
                            \A s \in Sources \ {WHOIS} : f[s]}
    /\ error_count = [s \in Sources |-> 0]
    /\ last_used = [s \in Sources |-> FALSE]
    /\ sessions = << >>
    /\ pc = [r \in AllRequests |-> "idle"]
    /\ depth = [r \in AllRequests |-> "none"]
    /\ tasks = [r \in AllRequests |-> [s \in Sources |-> NoTask]]
    /\ done_queue = [r \in AllRequests |-> <<>>]
    /\ task_results = [r \in AllRequests |-> <<>>]
    /\ built = [r \in AllRequests |-> NoResponse]
    /\ error_built = [r \in AllRequests |-> NoResponse]
    /\ outcome = [r \in AllRequests |-> "none"]
    /\ ai_output = [r \in AllRequests |-> "none"]
    /\ cancelled = [r \in AllRequests |-> FALSE]
    /\ failures = 0
    /\ last_call = NoCall
    /\ aggregated = NoAggregation
    /\ portfolio = NewPortfolio

(* --------------------- research_company, first part -------------------- *)

\* a registry rebuilt around the new entry
Register_Replacing(registry, id, progress) == [k \in {id} |-> progress]

\* line 57: self.active_research_sessions[request_id] = progress
Register(registry, id, progress) ==
    [k \in DOMAIN registry \cup {id} |->
        IF k = id THEN progress ELSE registry[k]]

\* lines 47-66 and 106-117: register the session, select the sources, create
\* one coroutine per source and suspend in the first "await task"
Submit(r, d) ==
    /\ pc[r] = "idle"
    /\ sessions' = Register(sessions, r, ResearchProgress)
    /\ depth' = [depth EXCEPT ![r] = d]
    /\ tasks' = [tasks EXCEPT ![r] =
                    [s \in Sources |->
                        IF s \in Range(SelectedSources(d))
                        THEN [NoTask EXCEPT !.st = "scheduled"] ELSE NoTask]]
    /\ pc' = [pc EXCEPT ![r] = "fanout"]
    /\ UNCHANGED <<providerVars, auxVars, last_call, error_count, last_used, done_queue, task_results,
                   built, error_built, outcome, ai_output, cancelled, failures>>

(* -------------------- BaseResearchSource.execute_research -------------- *)

\* The fan-out calls ai_service.execute_research with research_data={}:
\* AIAnalysisService.research raises ValueError before its first await, so
\* for ai_analysis the call and the raise are one uninterrupted step.
RaisesAtOnce(s) == s = AI_ANALYSIS

\* data = await self.research(...): the call is made
Called(t) == [t EXCEPT !.st = "probing", !.calls = @ + 1]

\* lines 62-72: research returned data
Succeeded(s, t, data) ==
    [t EXCEPT !.st = "done",
              !.result = ResearchTaskResult(s, COMPLETED, data, "none",
                                            get_cost_estimate(s))]

\* a wrapper that lets the last failure out instead of returning a result
Raised_Reraises(s, t, e) ==
    LET errs == Append(t.errs, e)
    IN IF RetryAgain(t.attempt)
       THEN [t EXCEPT !.st = "sleeping", !.errs = errs,
                      !.sleeps = Append(@, BackoffDelay(t.attempt))]
       ELSE [t EXCEPT !.st = "raised", !.errs = errs]

\* lines 74-89: research raised e in attempt t.attempt
Raised(s, t, e) ==
    LET errs == Append(t.errs, e)
    IN IF RetryAgain(t.attempt)
       THEN [t EXCEPT !.st = "sleeping", !.errs = errs,
                      !.sleeps = Append(@, BackoffDelay(t.attempt))]
       ELSE [t EXCEPT !.st = "done", !.errs = errs,
                      !.result = ResearchTaskResult(s, FAILED, "none",
                                                    ExhaustedMessage(errs),
                                                    get_cost_estimate(s))]

\* one call of research, up to the next suspension of the coroutine
Attempt(s, t) ==
    IF RaisesAtOnce(s) THEN Raised(s, Called(t), NO_RESEARCH_DATA) ELSE Called(t)

\* the place the next task of r to finish takes in the order of completion
CompletionIndex(r) ==
    Cardinality({s2 \in Sources : tasks[r][s2].order > 0}) + 1

\* execute_research is entered: the provider's bookkeeping as the call finds it
Entered(s, t) ==
    [t EXCEPT !.errors_before = error_count[s], !.used_before = last_used[s]]

\* the coroutine of (r, s) ran up to its next suspension or to its return;
\* a returned coroutine is handed to the as_completed iterator
Ran(r, s, t) ==
    /\ tasks' = [tasks EXCEPT ![r][s] =
                    IF t.st = "done"
                    THEN [t EXCEPT !.order = CompletionIndex(r)] ELSE t]
    /\ done_queue' = [done_queue EXCEPT ![r] =
                         IF t.st = "done" THEN Append(@, s) ELSE @]

\* lines 44-60: the health gate, then the first call of research
BeginTask(r, s) ==
    /\ tasks[r][s].st = "scheduled"
    /\ IF ~HealthGate(s)
       THEN /\ Ran(r, s, [Entered(s, tasks[r][s]) EXCEPT
                            !.st = "done",
                            !.result = ResearchTaskResult(s, FAILED, "none",
                                           NOT_HEALTHY, get_cost_estimate(s))])
            /\ UNCHANGED error_count
       ELSE /\ Ran(r, s, Attempt(s, Entered(s, tasks[r][s])))
            /\ error_count' = [error_count EXCEPT ![s] =
                                  IF RaisesAtOnce(s) THEN @ + 1 ELSE @]
    /\ UNCHANGED <<providerVars, auxVars, last_call, last_used, sessions, pc, depth,
                   task_results, built, error_built, outcome, ai_output,
                   cancelled, failures>>

\* lines 60-72: research returned data
ProbeSucceeds(r, s, data) ==
    /\ tasks[r][s].st = "probing"
    /\ last_used' = [last_used EXCEPT ![s] = TRUE]
    /\ error_count' = [error_count EXCEPT ![s] = 0]
    /\ Ran(r, s, Succeeded(s, tasks[r][s], data))
    /\ UNCHANGED <<providerVars, auxVars, last_call, sessions, pc, depth, task_results, built,
                   error_built, outcome, ai_output, cancelled, failures>>

\* lines 74-89: research raised e
ProbeRaises(r, s, e) ==
    /\ tasks[r][s].st = "probing"
    /\ e = ProbeErrors[tasks[r][s].calls]
    /\ failures < MaxProbeFailures
    /\ failures' = failures + 1
    /\ error_count' = [error_count EXCEPT ![s] = @ + 1]
    /\ Ran(r, s, Raised(s, tasks[r][s], e))
    /\ UNCHANGED <<providerVars, auxVars, last_call, last_used, sessions, pc, depth, task_results,
                   built, error_built, outcome, ai_output, cancelled>>

\* line 79 returns: the next iteration of the retry loop calls research again
SleepEnds(r, s) ==
    /\ tasks[r][s].st = "sleeping"
    /\ Ran(r, s, Attempt(s, [tasks[r][s] EXCEPT !.attempt = @ + 1]))
    /\ error_count' = [error_count EXCEPT ![s] =
                          IF RaisesAtOnce(s) THEN @ + 1 ELSE @]
    /\ UNCHANGED <<providerVars, auxVars, last_call, last_used, sessions, pc, depth,
                   task_results, built, error_built, outcome,
                   ai_output, cancelled, failures>>

\* lines 129-130: the coroutine of (r, s) ends with an exception instead of a
\* ResearchTaskResult, so that "await task" raises in the collecting loop.
\* _execute_research_task catches what its provider raises (lines 154-178):
\* this is the case the except branch of the loop is written for.
TaskRaises(r, s) ==
    /\ tasks[r][s].st = "scheduled"
    /\ tasks' = [tasks EXCEPT ![r][s] =
                    [@ EXCEPT !.st = "raised", !.order = CompletionIndex(r)]]
    /\ done_queue' = [done_queue EXCEPT ![r] = Append(@, s)]
    /\ UNCHANGED <<providerVars, auxVars, last_call, error_count, last_used, sessions,
                   pc, depth, task_results, built, error_built, outcome,
                   ai_output, cancelled, failures>>

(* -------------------- research_company, after the fan-out -------------- *)

\* lines 77-97: build the report, set the final progress, schedule the cleanup.
\* prog is the session's ResearchProgress as the pipeline left it.  Neither
\* builder passes request_id, which CompanyResearchResponse requires, so the
\* branches are decided by CompanyResearchResponse(kwargs) below.
FinishRequest(r, tr, prog, ai) ==
    LET research_data == MergeAI(_aggregate_research_data(tr), ai)
        args == _build_research_response(research_data, tr)
        err == _build_error_response
    IN /\ built' = [built EXCEPT ![r] = args]
       /\ ai_output' = [ai_output EXCEPT ![r] = ai]
       /\ pc' = [pc EXCEPT ![r] = "grace"]
       /\ IF CompanyResearchResponse(args.kwargs)
          THEN /\ sessions' = [sessions EXCEPT ![r] =
                                  [prog EXCEPT !.overall_progress = 100,
                                               !.status = COMPLETED,
                                               !.completed_tasks =
                                                   SelectedSources(depth[r])]]
               /\ outcome' = [outcome EXCEPT ![r] = "returned"]
               /\ UNCHANGED error_built
          ELSE \* the constructor raises: except branch, lines 86-93
               /\ sessions' = [sessions EXCEPT ![r] =
                                  [prog EXCEPT !.status = FAILED,
                                               !.overall_progress = 0]]
               /\ error_built' = [error_built EXCEPT ![r] = err]
               /\ outcome' = [outcome EXCEPT ![r] =
                                 IF CompanyResearchResponse(err.kwargs)
                                 THEN "returned" ELSE "raised"]

\* a loop that stops at the first Failed result
FanOutEnded_FailFast(tr, total_sources) ==
    \/ Len(tr) >= total_sources
    \/ \E k \in 1..Len(tr) : tr[k].status = FAILED

\* line 117: the loop over asyncio.as_completed(research_tasks) is exhausted
\* when every task has been yielded
FanOutEnded(tr, total_sources) == Len(tr) >= total_sources

\* i of line 123 instead of i + 1
CompletedCount_Index(tr) == Len(tr) - 1

\* (i + 1) of line 123: the results collected so far, this one included
CompletedCount(tr) == Len(tr)

\* waiting for the tasks one by one in the order they were submitted
NextYielded_InSubmissionOrder(queue, research_sources, tr) ==
    research_sources[Len(tr) + 1]

\* line 117: asyncio.as_completed yields the tasks in the order they finish
NextYielded(queue, research_sources, tr) == Head(queue)

Remove(queue, s) == SelectSeq(queue, LAMBDA x : x # s)

TASK_RAISED == "exception of the task"

\* lines 129-138: the result made up for a task that raised in iteration i
\* (from 0) of the loop
SynthesizedResult(research_sources, i) ==
    ResearchTaskResult(IF i < Len(research_sources)
                       THEN research_sources[i + 1] ELSE WHOIS,
                       FAILED, "none", TASK_RAISED, 0)

\* lines 117-140, one iteration of the as_completed loop; after the last one
\* the coroutine runs on (lines 69-77) until it suspends or ends.
\* The except branch (lines 129-140) is taken for a task that raised; no
\* task of a registered source does: _execute_research_task catches every
\* exception (lines 154-178) and execute_research returns a TaskResult on
\* each of its paths.
Collect(r) ==
    /\ pc[r] = "fanout"
    /\ done_queue[r] # <<>>
    /\ NextYielded(done_queue[r], SelectedSources(depth[r]), task_results[r])
          \in Range(done_queue[r])
    /\ LET s == NextYielded(done_queue[r], SelectedSources(depth[r]),
                            task_results[r])
           raised == tasks[r][s].st = "raised"
           result == IF raised
                     THEN SynthesizedResult(SelectedSources(depth[r]),
                                            Len(task_results[r]))
                     ELSE tasks[r][s].result
           tr == Append(task_results[r], result)
           total_sources == Len(SelectedSources(depth[r]))
           prog == IF raised
                   THEN [sessions[r] EXCEPT
                           !.failed_tasks = Append(@, result.source)]
                   ELSE [sessions[r] EXCEPT
                           !.overall_progress =
                               Percent(CompletedCount(tr), total_sources),
                           !.completed_tasks = Append(@, result.source),
                           !.failed_tasks = IF result.status = FAILED
                                            THEN Append(@, result.source) ELSE @]
           research_data == _aggregate_research_data(tr)
       IN /\ done_queue' = [done_queue EXCEPT ![r] = Remove(@, s)]
          /\ task_results' = [task_results EXCEPT ![r] = tr]
          /\ IF ~FanOutEnded(tr, total_sources)
             THEN /\ sessions' = [sessions EXCEPT ![r] = prog]
                  /\ UNCHANGED <<pc, built, error_built, outcome, ai_output>>
             ELSE IF AI_ANALYSIS \notin Range(SelectedSources(depth[r]))
             THEN FinishRequest(r, tr, prog, "none")
             ELSE IF research_data = {}
             THEN \* ai_service.research raises at once, _perform_ai_analysis
                  \* returns {}
                  FinishRequest(r, tr, prog, "{}")
             ELSE IF ~settings.llm_provider
             THEN \* every stage of the analysis takes its fallback, no await
                  \* suspends
                  FinishRequest(r, tr, prog, "analysis")
             ELSE \* suspended in the LLM calls of ai_service.research
                  /\ sessions' = [sessions EXCEPT ![r] = prog]
                  /\ pc' = [pc EXCEPT ![r] = "ai"]
                  /\ UNCHANGED <<built, error_built, outcome, ai_output>>
    /\ UNCHANGED <<providerVars, auxVars, last_call, error_count, last_used, depth, tasks,
                   cancelled, failures>>

\* lines 73-97: ai_service.research returned its analysis
AIReturns(r) ==
    /\ pc[r] = "ai"
    /\ FinishRequest(r, task_results[r], sessions[r], "analysis")
    /\ UNCHANGED <<providerVars, auxVars, last_call, error_count, last_used, depth, tasks,
                   done_queue, task_results, cancelled, failures>>

(* --------------------------- session registry -------------------------- *)

\* an id no research_company call has produced
UnknownId == "no-such-id"

\* a cancel that marks the session Partial
CancelledStatus_Partial == PARTIAL

\* line 297: progress.status = ResearchStatus.FAILED
CancelledStatus == FAILED

cancel_research(id) ==
    IF id \in DOMAIN sessions
    THEN /\ sessions' = [sessions EXCEPT ![id].status = CancelledStatus,
                                         ![id].overall_progress = 0]
         /\ cancelled' = [cancelled EXCEPT ![id] = TRUE]
    ELSE UNCHANGED <<sessions, cancelled>>

Cancel(id) ==
    /\ cancel_research(id)
    /\ UNCHANGED <<providerVars, auxVars, last_call, error_count, last_used, pc, depth, tasks,
                   done_queue, task_results, built, error_built, outcome,
                   ai_output, failures>>

\* where the research_company call that owns id stands ("idle": no call has
\* produced this id)
PhaseOf(id) == IF id \in AllRequests THEN pc[id] ELSE "idle"

\* a cancel that reports success for every id
CancelReturn_Always(id) == TRUE

\* lines 295-300: "if request_id in self.active_research_sessions: ...
\* return True", else "return False"
CancelReturn(id) == id \in DOMAIN sessions

\* cancel_research(id), its return value recorded
CancelCall(id) ==
    /\ cancel_research(id)
    /\ last_call' = [op |-> "cancel", id |-> id, at |-> PhaseOf(id),
                     value |-> IF CancelReturn(id) THEN "True" ELSE "False"]
    /\ UNCHANGED <<providerVars, auxVars, error_count, last_used, pc, depth, tasks,
                   done_queue, task_results, built, error_built, outcome,
                   ai_output, failures>>

\* get_research_progress(id), its return value recorded by its status ("none"
\* for None)
Poll(id) ==
    /\ last_call' = [op |-> "get", id |-> id, at |-> PhaseOf(id),
                     value |-> get_research_progress(id).status]
    /\ UNCHANGED <<providerVars, auxVars, error_count, last_used, sessions, pc, depth,
                   tasks, done_queue, task_results, built, error_built, outcome,
                   ai_output, cancelled, failures>>

\* a registry that keeps the entry
Evict_Nothing(registry, id) == registry

\* lines 379-380: "if request_id in self.active_research_sessions: del ..."
Evict(registry, id) ==
    IF id \in DOMAIN registry
    THEN [k \in DOMAIN registry \ {id} |-> registry[k]]
    ELSE registry

\* _cleanup_session, 300 s after research_company ended
Cleanup(r) ==
    /\ pc[r] = "grace"
    /\ pc' = [pc EXCEPT ![r] = "evicted"]
    /\ sessions' = Evict(sessions, r)
    /\ UNCHANGED <<providerVars, auxVars, last_call, error_count, last_used, depth, tasks,
                   done_queue, task_results, built, error_built, outcome,
                   ai_output, cancelled, failures>>

(* ----------------------------- specification --------------------------- *)

(* -------------------- _aggregate_research_data alone ------------------- *)

\* data == {} of a Completed result: research returned an empty dict
EMPTY_PAYLOAD == "empty"

\* longest result list given to _aggregate_research_data
MaxResults == 2

\* what a task can leave: Completed with a payload, Completed with the empty
\* dict of a research that found nothing, or Failed
ResultShapes ==
    {[status |-> COMPLETED, data |-> "payload"],
     [status |-> COMPLETED, data |-> EMPTY_PAYLOAD],
     [status |-> FAILED, data |-> "none"]}

\* the result list of tasks of the given kinds, in their order of completion
ResultList(kinds, shapes) ==
    [k \in 1..Len(kinds) |->
        ResearchTaskResult(kinds[k], shapes[k].status, shapes[k].data,
                           IF shapes[k].status = FAILED THEN NOT_HEALTHY ELSE "none",
                           get_cost_estimate(kinds[k]))]

\* a fan-out has at most one task of each kind
OneTaskPerKind(kinds) ==
    \A i, j \in 1..Len(kinds) : i # j => kinds[i] # kinds[j]

\* lines 180-189 applied to tr, in one call
Aggregate(tr) ==
    /\ ~aggregated.called
    /\ aggregated' = [called |-> TRUE, task_results |-> tr,
                      research_data |-> _aggregate_research_data(tr)]
    /\ UNCHANGED <<orchestratorVars, portfolio>>

AggregateNext ==
    \E n \in 0..MaxResults : \E kinds \in [1..n -> Sources] :
        /\ OneTaskPerKind(kinds)
        /\ \E shapes \in [1..n -> ResultShapes] :
              Aggregate(ResultList(kinds, shapes))

AggregateSpec == Init /\ [][AggregateNext]_vars

(* ----------------------- PortfolioResearchService ---------------------- *)

\* the error count from which PortfolioResearchService is unhealthy
UNHEALTHY_ERRORS == 5

\* return self.is_available and self.error_count < 5
portfolio_is_healthy(p) == p.is_available /\ p.error_count < UNHEALTHY_ERRORS

\* execute_research is called: the health gate, then the first call of research
PortfolioBegin ==
    /\ portfolio.st = "idle"
    /\ portfolio' =
          IF ~portfolio_is_healthy(portfolio)
          THEN [portfolio EXCEPT !.calls = 0, !.attempt = 0, !.status = FAILED,
                                 !.error_message = NOT_HEALTHY]
          ELSE [portfolio EXCEPT !.st = "probing", !.calls = 1, !.attempt = 0,
                                 !.status = "none", !.error_message = "none"]
    /\ UNCHANGED <<orchestratorVars, aggregated>>

\* lines 60-72: research returned data
PortfolioSucceeds ==
    /\ portfolio.st = "probing"
    /\ portfolio' = [portfolio EXCEPT !.st = "idle", !.last_used = TRUE,
                                      !.error_count = 0, !.status = COMPLETED]
    /\ UNCHANGED <<orchestratorVars, aggregated>>

\* lines 74-89: research raised e
PortfolioRaises(e) ==
    /\ portfolio.st = "probing"
    /\ e = ProbeErrors[portfolio.calls]
    /\ portfolio' =
          IF RetryAgain(portfolio.attempt)
          THEN [portfolio EXCEPT !.st = "sleeping", !.error_count = @ + 1]
          ELSE [portfolio EXCEPT !.st = "idle", !.error_count = @ + 1,
                                 !.status = FAILED, !.error_message = e]
    /\ UNCHANGED <<orchestratorVars, aggregated>>

\* line 79 returns: the next iteration of the retry loop calls research again
PortfolioSleepEnds ==
    /\ portfolio.st = "sleeping"
    /\ portfolio' = [portfolio EXCEPT !.st = "probing", !.attempt = @ + 1,
                                      !.calls = @ + 1]
    /\ UNCHANGED <<orchestratorVars, aggregated>>

\* lines 112-115
reset_health_metrics ==
    /\ portfolio' = [portfolio EXCEPT !.error_count = 0, !.last_used = FALSE]
    /\ UNCHANGED <<orchestratorVars, aggregated>>

\* lines 117-123
update_availability(b) ==
    /\ portfolio' = [portfolio EXCEPT !.is_available = b]
    /\ UNCHANGED <<orchestratorVars, aggregated>>

PortfolioNext ==
    \/ PortfolioBegin
    \/ PortfolioSucceeds
    \/ \E e \in Range(ProbeErrors) : PortfolioRaises(e)
    \/ PortfolioSleepEnds
    \/ reset_health_metrics
    \/ \E b \in BOOLEAN : update_availability(b)

PortfolioSpec == Init /\ [][PortfolioNext]_vars

Next ==
    \/ \E r \in Requests, d \in Depths : Submit(r, d)
    \/ \E r \in Requests, s \in Sources : BeginTask(r, s)
    \/ \E r \in Requests, s \in Sources, data \in Payloads : ProbeSucceeds(r, s, data)
    \/ \E r \in Requests, s \in Sources, e \in Range(ProbeErrors) : ProbeRaises(r, s, e)
    \/ \E r \in Requests, s \in Sources : SleepEnds(r, s)
    \/ \E r \in Requests : Collect(r)
    \/ \E r \in Requests : AIReturns(r)
    \/ \E id \in Requests \cup {UnknownId} : Cancel(id)
    \/ \E r \in Requests : Cleanup(r)

Spec == Init /\ [][Next]_vars

\* research(...) of provider s, awaited by request r, returns or raises
ProbeEnds(r, s) ==
    \/ \E data \in Payloads : ProbeSucceeds(r, s, data)
    \/ \E e \in Range(ProbeErrors) : ProbeRaises(r, s, e)

\* some coroutine working for request r takes its next step
Progresses(r) ==
    \/ \E s \in Sources : BeginTask(r, s) \/ ProbeEnds(r, s) \/ SleepEnds(r, s)
    \/ Collect(r)
    \/ AIReturns(r)
    \/ Cleanup(r)

\* The event loop keeps running: as long as a coroutine of request r is ready,
\* an asyncio.sleep of it is pending or a provider call of it is awaited, one
\* of them goes on.  Nobody is obliged to submit or to cancel.
Fairness == \A r \in Requests : WF_vars(Progresses(r))

\* Whether a session is evicted does not depend on which credential makes a
\* provider healthy: the deployments with web search configured or not, and
\* with knowledge graph and LLM configured or not
LiveDeployments ==
    {cfg \in Deployments : ~cfg.google_api_key /\ cfg.kg_api_key = cfg.llm_provider}

LiveInit == Init /\ settings \in LiveDeployments

LiveSpec == LiveInit /\ [][Next]_vars /\ Fairness

\* the registry calls with their return values, over requests of one depth
RegistryDepths == {"basic", "standard"}

RegistryNext ==
    \/ \E r \in Requests, d \in RegistryDepths : Submit(r, d)
    \/ \E r \in Requests, s \in Sources : BeginTask(r, s)
    \/ \E r \in Requests, s \in Sources, data \in Payloads : ProbeSucceeds(r, s, data)
    \/ \E r \in Requests, s \in Sources, e \in Range(ProbeErrors) : ProbeRaises(r, s, e)
    \/ \E r \in Requests, s \in Sources : SleepEnds(r, s)
    \/ \E r \in Requests : Collect(r)
    \/ \E id \in Requests \cup {UnknownId} : CancelCall(id)
    \/ \E id \in Requests \cup {UnknownId} : Poll(id)
    \/ \E r \in Requests : Cleanup(r)

RegistrySpec == Init /\ [][RegistryNext]_vars

\* the fan-out of a standard request in which a task may raise
FaultDepths == {"standard"}

FaultNext ==
    \/ \E r \in Requests, d \in FaultDepths : Submit(r, d)
    \/ \E r \in Requests, s \in Sources : BeginTask(r, s)
    \/ \E r \in Requests, s \in Sources : TaskRaises(r, s)
    \/ \E r \in Requests, s \in Sources, data \in Payloads : ProbeSucceeds(r, s, data)
    \/ \E r \in Requests, s \in Sources, e \in Range(ProbeErrors) : ProbeRaises(r, s, e)
    \/ \E r \in Requests, s \in Sources : SleepEnds(r, s)
    \/ \E r \in Requests : Collect(r)
    \/ \E r \in Requests : Cleanup(r)

FaultSpec == Init /\ [][FaultNext]_vars

\* two research_company calls in flight at the same time on the one
\* orchestrator of the endpoint module, each of depth basic
ConcurrentDepths == {"basic"}

\* some step taken for request q or on its id
OwnStep(q) ==
    \/ \E d \in ConcurrentDepths : Submit(q, d)
    \/ \E s \in Sources : BeginTask(q, s) \/ ProbeEnds(q, s) \/ SleepEnds(q, s)
    \/ Collect(q)
    \/ Cancel(q)
    \/ Poll(q)
    \/ Cleanup(q)

ConcurrentNext ==
    \/ \E r \in AllRequests, d \in ConcurrentDepths : Submit(r, d)
    \/ \E r \in AllRequests, s \in Sources : BeginTask(r, s)
    \/ \E r \in AllRequests, s \in Sources, data \in Payloads : ProbeSucceeds(r, s, data)
    \/ \E r \in AllRequests, s \in Sources, e \in Range(ProbeErrors) : ProbeRaises(r, s, e)
    \/ \E r \in AllRequests, s \in Sources : SleepEnds(r, s)
    \/ \E r \in AllRequests : Collect(r)
    \/ \E id \in AllRequests : Cancel(id)
    \/ \E id \in AllRequests : Poll(id)
    \/ \E r \in AllRequests : Cleanup(r)

\* A request of depth basic runs web search alone: the deployments that
\* differ in the web search credentials, every other provider healthy
ConcurrentInit ==
    /\ Init
    /\ settings.kg_api_key /\ settings.llm_provider
    /\ is_available[WHOIS]

ConcurrentSpec == ConcurrentInit /\ [][ConcurrentNext]_vars

(* ------------------------------- claims -------------------------------- *)

Selected(r) == Range(SelectedSources(depth[r]))

\* the reports research_company has assembled for request r so far
Reports(r) == {rep \in {built[r], error_built[r]} : rep.kind # "none"}

HasResult(tr, s, st) == \E k \in 1..Len(tr) : tr[k].source = s /\ tr[k].status = st

RECURSIVE SumOfCosts(_)
SumOfCosts(tr) ==
    IF tr = <<>> THEN 0 ELSE Head(tr).cost_estimate + SumOfCosts(Tail(tr))

Started(t) == t.st \in {"probing", "sleeping", "done"}

\* C1: in every report research_company assembles, research_status is
\* Completed only if failed_sources is empty and every source selected by the
\* request's depth has a Completed TaskResult.
C1_CompletedOnlyWithoutFailures ==
    \A r \in Requests : \A rep \in Reports(r) :
        rep.research_status = COMPLETED =>
            /\ rep.failed_sources = <<>>
            /\ \A s \in Selected(r) : HasResult(rep.task_results, s, COMPLETED)

\* C2: when the fan-out ends with at least one Failed source, the report's
\* research_status is Partial if some source Completed and Failed if none did.
C2_PartialOrFailedOnFailure ==
    \A r \in Requests :
        (built[r].kind = "research" /\ built[r].failed_sources # <<>>) =>
            built[r].research_status =
                IF built[r].sources_used # <<>> THEN PARTIAL ELSE FAILED

\* C3: in every report research_company assembles, sources_used and
\* failed_sources have no kind in common and hold only kinds selected by the
\* request's depth.
C3_UsedAndFailedDisjoint ==
    \A r \in Requests : \A rep \in Reports(r) :
        /\ Range(rep.sources_used) \cap Range(rep.failed_sources) = {}
        /\ Range(rep.sources_used) \cup Range(rep.failed_sources) \subseteq Selected(r)

\* a report with both a used and a failed source has been assembled
C3_Witness ==
    \E r \in Requests :
        /\ built[r].kind = "research"
        /\ built[r].sources_used # <<>>
        /\ built[r].failed_sources # <<>>

\* C4: in every report research_company assembles, total_cost is not negative
\* and is the sum of cost_estimate over all its task_results, Completed and
\* Failed alike.
C4_TotalCostIsSum ==
    \A r \in Requests : \A rep \in Reports(r) :
        /\ rep.total_cost >= 0
        /\ rep.total_cost = SumOfCosts(rep.task_results)

\* a report whose cost comes from a Failed and from a Completed result
C4_Witness ==
    \E r \in Requests :
        /\ built[r].kind = "research"
        /\ \E j, k \in 1..Len(built[r].task_results) :
              /\ built[r].task_results[j].status = FAILED
              /\ built[r].task_results[j].cost_estimate > 0
              /\ built[r].task_results[k].status = COMPLETED
              /\ built[r].task_results[k].cost_estimate > 0

\* C5: execute_research of a provider whose is_healthy() is false returns a
\* Failed TaskResult at once: research is called zero times and there is no
\* backoff sleep.
C5_UnhealthyFailsWithoutProbe ==
    \A r \in Requests : \A s \in Sources :
        (Started(tasks[r][s]) /\ ~is_healthy(s)) =>
            /\ tasks[r][s].st = "done"
            /\ tasks[r][s].result.status = FAILED
            /\ tasks[r][s].result.source = s
            /\ tasks[r][s].calls = 0
            /\ tasks[r][s].sleeps = <<>>
            /\ tasks[r][s].errs = <<>>

\* execute_research has run for an unhealthy provider
C5_Witness ==
    \E r \in Requests : \E s \in Sources :
        tasks[r][s].st = "done" /\ ~is_healthy(s)

\* C6: a healthy provider whose probe fails k times (k in 0..2) and then
\* succeeds gives a Completed TaskResult after exactly k+1 calls and k sleeps,
\* the j-th sleep (from 0) lasting 1 * 2^j seconds; every sleep lies between a
\* failed call and the next call.
C6_RetryThenSuccess ==
    \A r \in Requests : \A s \in Sources :
        LET t == tasks[r][s]
            k == Len(t.errs)
        IN /\ (t.st = "done" /\ t.result.status = COMPLETED) =>
                /\ is_healthy(s)
                /\ k \in 0..2
                /\ t.calls = k + 1
                /\ t.sleeps = [j \in 1..k |-> 1 * 2^(j - 1)]
           /\ t.st = "probing" => (Len(t.sleeps) = k /\ t.calls = k + 1)
           /\ t.st = "sleeping" => (Len(t.sleeps) = k /\ t.calls = k)

\* a provider succeeded in its third call, after sleeps of 1 s and 2 s
C6_Witness ==
    \E r \in Requests : \E s \in Sources :
        /\ tasks[r][s].result.status = COMPLETED
        /\ Len(tasks[r][s].errs) = 2
        /\ tasks[r][s].sleeps = <<1, 2>>

\* C7: when the probe of a healthy provider fails in every attempt,
\* execute_research calls it exactly 3 times, sleeps exactly twice (not after
\* the third failure) and returns a Failed TaskResult with the message of the
\* third failure; research is never called a fourth time.
C7_ExhaustedRetries ==
    \A r \in Requests : \A s \in Sources :
        LET t == tasks[r][s]
        IN /\ t.calls <= 3
           /\ (is_healthy(s) /\ Len(t.errs) = 3) =>
                /\ t.st = "done"
                /\ t.result.status = FAILED
                /\ t.calls = 3
                /\ Len(t.sleeps) = 2
                /\ t.result.error_message = t.errs[3]
           /\ (is_healthy(s) /\ t.st = "done" /\ t.result.status = FAILED) =>
                Len(t.errs) = 3

\* a provider other than ai_analysis failed three times
C7_Witness ==
    \E r \in Requests : \E s \in Sources \ {AI_ANALYSIS} :
        /\ tasks[r][s].st = "done"
        /\ tasks[r][s].result.error_message = ProbeErrors[3]

Live(r) == r \in DOMAIN sessions

TerminalStatus == {COMPLETED, FAILED, PARTIAL}

C10_CancelledStaysFailedAtZero ==
    \A r \in Requests :
        (cancelled[r] /\ Live(r)) =>
            /\ get_research_progress(r).status = FAILED
            /\ get_research_progress(r).overall_progress = 0

\* C11: for an id never registered or already evicted, get_research_progress
\* returns not-found and cancel_research returns False, and neither call
\* changes the registry; cancel_research returns True exactly when a session
\* with that id is in the registry.
C11_UnknownIdLeavesRegistryAlone ==
    [][last_call' # last_call =>
          LET c == last_call'
          IN /\ c.op = "cancel" => (c.value = "True" <=> c.id \in DOMAIN sessions)
             /\ c.id \notin DOMAIN sessions =>
                   /\ sessions' = sessions
                   /\ c.op = "cancel" => c.value = "False"
                   /\ c.op = "get" => c.value = "none"
             /\ c.op = "get" => sessions' = sessions]_vars

\* cancel_research was called with the id of an evicted session
C11_Witness ==
    /\ last_call.op = "cancel"
    /\ last_call.at = "evicted"
    /\ last_call.value = "False"
    /\ sessions = << >>

\* C12: every session that is registered is eventually evicted: it stays in
\* the registry while research_company runs and through the grace period, is
\* then removed, and from then on get_research_progress returns not-found.
C12_EverySessionEvicted ==
    /\ \A r \in Requests : Live(r) ~> (pc[r] = "evicted" /\ ~Live(r))
    /\ [](\A r \in Requests :
            /\ pc[r] \in {"fanout", "ai", "grace"} => Live(r)
            /\ pc[r] = "evicted" => get_research_progress(r).status = "none")

\* a session was evicted after its research_company call had raised
C12_Witness ==
    \E r \in Requests :
        /\ pc[r] = "evicted"
        /\ outcome[r] = "raised"
        /\ ~Live(r)

\* C13: from the moment research_company has set the final status until the
\* eviction, no step changes the session's status or overall_progress, a
\* cancel_research included, and every get_research_progress returns that
\* status.
C13_FinalStateStableInGrace ==
    [][\A r \in Requests :
          (pc[r] = "grace" /\ Live(r) /\ r \in DOMAIN sessions') =>
              /\ sessions'[r].status = sessions[r].status
              /\ sessions'[r].overall_progress = sessions[r].overall_progress
              /\ (last_call' # last_call /\ last_call'.id = r
                                         /\ last_call'.op = "get") =>
                    last_call'.value = sessions[r].status]_vars

\* cancel_research returned True for a session in its grace period, which
\* still shows the final status
C13_Witness ==
    /\ last_call.op = "cancel"
    /\ last_call.at = "grace"
    /\ last_call.value = "True"
    /\ last_call.id \in DOMAIN sessions
    /\ pc[last_call.id] = "grace"
    /\ sessions[last_call.id].status = FAILED
    /\ sessions[last_call.id].overall_progress = 0

\* research was called by _perform_ai_analysis (lines 72-74 and 201-206)
PostFanoutAICalls(r) == IF pc[r] = "ai" \/ ai_output[r] # "none" THEN 1 ELSE 0

\* calls of AIAnalysisService.research made for request r so far
AIProbeCalls(r) == tasks[r][AI_ANALYSIS].calls + PostFanoutAICalls(r)

Collected(r, s) == \E k \in 1..Len(task_results[r]) : task_results[r][k].source = s

\* C14: for a request whose depth selects ai_analysis, the AI provider is not
\* part of the fan-out: its research is called only after every other selected
\* source has produced its TaskResult, and at most once for the request.
C14_AIOnlyAfterFanoutOnce ==
    \A r \in Requests :
        (depth[r] # "none" /\ AI_ANALYSIS \in Selected(r)) =>
            /\ tasks[r][AI_ANALYSIS].calls = 0
            /\ AIProbeCalls(r) <= 1
            /\ AIProbeCalls(r) > 0 =>
                  \A s \in Selected(r) \ {AI_ANALYSIS} : Collected(r, s)

\* C15: when the AI stage after the fan-out gave back a result, the result is
\* in the aggregated map under the key ai_analysis and the narrative fields
\* handed to the report are the AI's values, not the default strings.
C15_AIOutputPromoted ==
    \A r \in Requests :
        (ai_output[r] = "analysis" /\ built[r].kind = "research") =>
            /\ AI_ANALYSIS \in built[r].research_data
            /\ built[r].narrative = AI_NARRATIVE

AllOthersCompleted(r) ==
    \A s \in Selected(r) \ {AI_ANALYSIS} : HasResult(task_results[r], s, COMPLETED)

\* C16: for depth comprehensive, when research of the AI provider has raised
\* and all other selected sources completed, research_company returns a
\* report whose status is Completed and whose narrative fields hold the
\* default strings.
C16_AIFailureKeepsReport ==
    \A r \in Requests :
        (/\ depth[r] = "comprehensive"
         /\ pc[r] \in {"grace", "evicted"}
         /\ tasks[r][AI_ANALYSIS].errs # <<>>
         /\ AllOthersCompleted(r)) =>
            /\ outcome[r] = "returned"
            /\ built[r].research_status = COMPLETED
            /\ built[r].narrative = DEFAULT_NARRATIVE

\* C17: every research_company call that has ended returned a report; none
\* let an exception out to its caller.
C17_AlwaysReturnsReport ==
    \A r \in Requests :
        pc[r] \in {"grace", "evicted"} => outcome[r] = "returned"

TaskStates == {"none", "scheduled", "probing", "sleeping", "done"}

\* C18: execute_research never raises to its caller: every execution is
\* pending, running or has returned, and what it returned is a TaskResult of
\* the provider's own kind with status Completed or Failed.
C18_ExecuteResearchAlwaysReturns ==
    \A r \in Requests : \A s \in Sources :
        /\ tasks[r][s].st \in TaskStates
        /\ tasks[r][s].st = "done" =>
              /\ tasks[r][s].result.source = s
              /\ tasks[r][s].result.status \in {COMPLETED, FAILED}

\* one request saw execute_research return for an unhealthy provider, for a
\* provider that failed in all three attempts and for one that succeeded
C18_Witness ==
    \E r \in Requests : \E s1, s2, s3 \in Sources :
        /\ tasks[r][s1].st = "done" /\ tasks[r][s1].result.error_message = NOT_HEALTHY
        /\ tasks[r][s2].st = "done" /\ tasks[r][s2].result.error_message = ProbeErrors[3]
        /\ tasks[r][s3].st = "done" /\ tasks[r][s3].result.status = COMPLETED

\* the sources research_company dispatched for request r
Dispatched(r) == {s \in Sources : tasks[r][s].st # "none"}

\* C19: for every depth string, unknown ones included, the sources
\* get_cost_estimate prices are the sources research_company selects and
\* dispatches for a request of that depth.
C19_EstimatePricesWhatIsDispatched ==
    \A r \in Requests :
        depth[r] # "none" =>
            /\ CostEstimateSources(depth[r]) = SelectedSources(depth[r])
            /\ Range(CostEstimateSources(depth[r])) = Dispatched(r)

ResultsOf(r, s) == {k \in 1..Len(task_results[r]) : task_results[r][k].source = s}

\* C20: when the fan-out of a request has ended, the result list holds
\* exactly one TaskResult for each source that was dispatched, and every
\* dispatched execute_research has run to its return.
C20_OneResultPerDispatchedSource ==
    \A r \in Requests :
        pc[r] \in {"ai", "grace", "evicted"} =>
            /\ Len(task_results[r]) = Cardinality(Dispatched(r))
            /\ \A s \in Dispatched(r) :
                  /\ Cardinality(ResultsOf(r, s)) = 1
                  /\ tasks[r][s].st = "done"

\* a fan-out ended whose first result was Failed and a later one Completed
C20_Witness ==
    \E r \in Requests :
        /\ pc[r] \in {"ai", "grace", "evicted"}
        /\ Len(task_results[r]) >= 2
        /\ task_results[r][1].status = FAILED
        /\ \E k \in 2..Len(task_results[r]) : task_results[r][k].status = COMPLETED

\* the id research_company_async hands to its caller when the background call
\* it starts registers its session under r: str(uuid.uuid4()) of the endpoint,
\* drawn independently of the uuid4 of research_company
research_company_async ==
    [r \in AllRequests |->
        IF r = "request-1" THEN "endpoint-id-1" ELSE "endpoint-id-2"]

\* C21: the id the asynchronous submit returned is the id of the session of
\* the research it started: while that session is live,
\* get_research_progress(returned id) finds it.
C21_AsyncIdFindsSession ==
    \A r \in Requests :
        Live(r) =>
            /\ research_company_async[r] \in DOMAIN sessions
            /\ get_research_progress(research_company_async[r]) = sessions[r]

\* C22: after an execute_research call that returned Completed the provider's
\* error_count is 0 and last_used is set; after a call in which all three
\* attempts failed error_count is one greater than before the call and
\* last_used is as before.
C22_BookkeepingAfterCall ==
    \A r \in Requests : \A s \in Sources :
        LET t == tasks[r][s]
        IN t.st = "done" =>
              /\ t.result.status = COMPLETED =>
                    (error_count[s] = 0 /\ last_used[s])
              /\ (t.result.status = FAILED /\ Len(t.errs) = max_retries) =>
                    /\ error_count[s] = t.errors_before + 1
                    /\ last_used[s] = t.used_before

\* C23: on each task completion of the fan-out the TaskResult is appended to
\* the result list, overall_progress becomes completed / selected * 100 (seen
\* as long as research_company does not run on into its exception handler in
\* the same step), the kind is appended to completed_tasks, and to
\* failed_tasks exactly when the result is Failed; after the fan-out
\* completed_tasks holds every selected kind once and failed_tasks exactly
\* the failed kinds.
C23_ProgressPerCompletion ==
    /\ [][\A r \in Requests :
             task_results'[r] # task_results[r] =>
                LET tr == task_results'[r]
                    result == tr[Len(tr)]
                    old == sessions[r]
                    new == sessions'[r]
                IN /\ tr = Append(task_results[r], result)
                   /\ result = tasks[r][result.source].result
                   /\ new.completed_tasks = Append(old.completed_tasks, result.source)
                   /\ new.failed_tasks =
                         IF result.status = FAILED
                         THEN Append(old.failed_tasks, result.source)
                         ELSE old.failed_tasks
                   /\ pc'[r] \in {"fanout", "ai"} =>
                         new.overall_progress =
                            (Len(tr) * 100) \div Len(SelectedSources(depth[r]))]_vars
    /\ [](\A r \in Requests :
            pc[r] \in {"ai", "grace"} =>
               /\ Len(sessions[r].completed_tasks) = Cardinality(Selected(r))
               /\ Range(sessions[r].completed_tasks) = Selected(r)
               /\ Len(sessions[r].failed_tasks)
                     = Cardinality(Range(sessions[r].failed_tasks))
               /\ Range(sessions[r].failed_tasks)
                     = {s \in Selected(r) : tasks[r][s].result.status = FAILED})

\* two of three tasks have been collected, one of them Failed
C23_Witness ==
    \E r \in Requests :
        /\ pc[r] = "fanout"
        /\ Len(task_results[r]) = 2
        /\ Len(sessions[r].failed_tasks) = 1
        /\ sessions[r].overall_progress = 66

\* the place of source s in the list the request submitted
Position(r, s) ==
    CHOOSE k \in 1..Len(SelectedSources(depth[r])) : SelectedSources(depth[r])[k] = s

\* C24: results are processed in completion order: task_results lists the
\* results in the order their tasks finished, and a finished task can be
\* collected at once, whatever its siblings are doing.
C24_ResultsInCompletionOrder ==
    \A r \in Requests :
        /\ \A k \in 1..Len(task_results[r]) :
              tasks[r][task_results[r][k].source].order = k
        /\ (pc[r] = "fanout" /\ done_queue[r] # <<>>) => ENABLED Collect(r)

\* the result of a task was collected and shown in the progress while a
\* sibling submitted before it sleeps between two retries
C24_Witness ==
    \E r \in Requests : \E s1, s2 \in Sources :
        /\ pc[r] = "fanout"
        /\ {s1, s2} \subseteq Selected(r)
        /\ Position(r, s1) < Position(r, s2)
        /\ tasks[r][s1].st = "sleeping"
        /\ Len(task_results[r]) >= 1
        /\ task_results[r][1].source = s2
        /\ sessions[r].overall_progress > 0

RECURSIVE SumOverSources(_, _)
SumOverSources(r, S) ==
    IF S = {} THEN 0
    ELSE LET s == CHOOSE x \in S : TRUE
         IN tasks[r][s].result.cost_estimate + SumOverSources(r, S \ {s})

\* C25: the report does not depend on the completion order: its status, the
\* sets sources_used and failed_sources, its total_cost and the sources with
\* a payload in the aggregated map are functions of the outcome of each
\* provider alone.
C25_ReportIgnoresCompletionOrder ==
    \A r \in Requests :
        built[r].kind = "research" =>
            /\ built[r].research_status = COMPLETED
            /\ Range(built[r].sources_used) =
                  {s \in Dispatched(r) : tasks[r][s].result.status = COMPLETED}
            /\ Range(built[r].failed_sources) =
                  {s \in Dispatched(r) : tasks[r][s].result.status = FAILED}
            /\ built[r].total_cost = SumOverSources(r, Dispatched(r))
            /\ built[r].research_data \cap Sources =
                  {s \in Dispatched(r) : tasks[r][s].result.data = "payload"}

\* a report built from results that arrived in another order than the
\* submission order, a Failed one before a Completed one
C25_Witness ==
    \E r \in Requests :
        /\ built[r].kind = "research"
        /\ \E j, k \in 1..Len(built[r].task_results) :
              /\ j < k
              /\ built[r].task_results[j].status = FAILED
              /\ built[r].task_results[k].status = COMPLETED
              /\ Position(r, built[r].task_results[j].source)
                    > Position(r, built[r].task_results[k].source)

\* C26: concurrent requests do not interfere in the registry: a
\* research_company call registers its session under an id not in use, and
\* no step of one request (its pipeline, a cancel_research or a
\* get_research_progress on its id, its eviction) changes the presence or the
\* Progress of another session.
C26_RequestsKeepToTheirSession ==
    [][\A q \in AllRequests :
          OwnStep(q) =>
             /\ (\E d \in ConcurrentDepths : Submit(q, d)) =>
                   (q \notin DOMAIN sessions /\ q \in DOMAIN sessions')
             /\ \A r \in AllRequests \ {q} :
                   /\ r \in DOMAIN sessions <=> r \in DOMAIN sessions'
                   /\ r \in DOMAIN sessions => sessions'[r] = sessions[r]]_vars

\* one session was cancelled and evicted while the other one goes on
\* in progress
C26_Witness ==
    \E q, r \in AllRequests :
        /\ q # r
        /\ pc[q] = "evicted" /\ cancelled[q]
        /\ pc[r] = "fanout" /\ r \in DOMAIN sessions
        /\ sessions[r].status = IN_PROGRESS
        /\ sessions[r].completed_tasks = <<>>

\* the retry loop of request r on provider s is between its first call of
\* research and its return
InRetryLoop(r, s) == tasks[r][s].st \in {"probing", "sleeping"}

\* C27: no provider's error_count or last_used is written by the tasks of
\* two requests in flight: while the retry loop of one request runs on a
\* provider, no task of another request changes that provider's error_count
\* or last_used.
C27_ProviderBookkeepingNotShared ==
    [][\A q, r \in AllRequests : \A s \in Sources :
          (/\ q # r
           /\ InRetryLoop(r, s)
           /\ BeginTask(q, s) \/ ProbeEnds(q, s) \/ SleepEnds(q, s)) =>
              /\ error_count'[s] = error_count[s]
              /\ last_used'[s] = last_used[s]]_vars

C30_LatchesUnhealthy ==
    [][(portfolio.error_count >= UNHEALTHY_ERRORS /\ ~reset_health_metrics) =>
          /\ portfolio'.error_count >= portfolio.error_count
          /\ PortfolioBegin =>
                /\ portfolio'.status = FAILED
                /\ portfolio'.error_message = NOT_HEALTHY
                /\ portfolio'.calls = 0
                /\ portfolio'.st = "idle"]_vars

====
